---- MODULE Spec2Model ----
(***************************************************************************)
(* Model of the Okta group reconciler, iambic/okta/group/models.py:        *)
(* OktaGroupTemplate.apply fans one _apply_to_account coroutine out per    *)
(* configured Okta organization with asyncio.gather; each coroutine        *)
(* fetches the live group, creates it when absent (execute mode only),     *)
(* prunes expired resources, and then gathers four concurrent coroutines   *)
(* (name, description, members, delete).                                   *)
(*                                                                         *)
(* One action is one stretch of code between two suspension points of the  *)
(* cooperative scheduler (an await of a provider call).  The provider      *)
(* helpers of iambic.okta.group.utils and the lifecycle helpers of         *)
(* iambic.core.models are not part of the sources at hand: they are        *)
(* modelled from the specification's sections 4.2, 4.4 and 6.              *)
(***************************************************************************)
EXTENDS Integers, Sequences, FiniteSets, TLC

\* ------------------------------------------------------------------ bounds
MaxRuns == 2        \* consecutive apply calls on the same template object
MaxFaults == 1      \* provider calls that are rejected (ProviderError) in a behaviour

\* ------------------------------------------------------------------ values
\* config.okta_organizations, by idp_name, in the configured order
okta_organizations == <<"development", "staging">>
Orgs == {okta_organizations[i] : i \in 1..Len(okta_organizations)}

Users == {"alice", "bob"}
DesiredName == "eng"
StaleName == "eng-old"
DesiredDescription == "engineers"
StaleDescription == ""

\* IambicManaged, the template's management mode
IambicManaged == {"UNDEFINED", "IMPORT_ONLY", "ENFORCED"}

\* ProposedChangeType
CREATE == "CREATE"
UPDATE == "UPDATE"
DELETE == "DELETE"

\* The coroutines of the inner gather, in the order of the list at lines 209-242.
FieldTasks == <<"name", "description", "members", "delete">>
TaskNames == {FieldTasks[i] : i \in 1..Len(FieldTasks)}

\* Provider adapter operations; every one but get_group mutates the provider.
AdapterCalls == {"get_group", "create_group", "update_group_name",
                 "update_group_description", "update_group_members", "delete_group"}
MutatingCalls == AdapterCalls \ {"get_group"}
\* What `calls` counts: the adapter calls and the pruning pass.
TracedCalls == AdapterCalls \cup {"remove_expired_resources"}

\* A live group (okta.models.Group); exists = FALSE stands for get_group's None.
Group(n, d, m) == [exists |-> TRUE, name |-> n, description |-> d, members |-> m]
Absent == [exists |-> FALSE, name |-> "", description |-> "", members |-> {}]

\* ProposedChange; new_value is the set of strings the change carries.
ProposedChange(ct, attr, rid, nv) ==
    [change_type |-> ct, attribute |-> attr, resource_id |-> rid,
     resource_type |-> "okta:group", new_value |-> nv]

VARIABLES
    tpl,        \* the OktaGroupTemplate object (self): properties and lifecycle fields
    fileExists, \* the template's backing record is still on disk
    live,       \* the provider's state: live[o] is the group in organization o
    execute,    \* context.execute of the apply call in progress
    applyPc,    \* apply: "idle" | "gather" | "returned" | "raised"
    report,     \* template_changes.proposed_changes as returned by apply
    template_resource_id,  \* template_changes.resource_id (line 97)
    logline,    \* the aggregate log line apply emitted: "" | "applied" | "detected" | "none"
    pc,         \* _apply_to_account per organization
    current,    \* its local current_group
    details,    \* its local change_details
    task,       \* the inner gather's coroutines: "none" | "pending" | "done" | "raised"
    taskOut,    \* what each of them returned
    calls,      \* adapter calls issued during the apply call in progress
    faults,     \* provider rejections still to come
    run,        \* apply calls started so far
    prev,       \* what the previous apply call returned
    completed   \* the organizations whose coroutine has returned, in the order they did

oktaVars == <<tpl, fileExists, live, execute, applyPc, report, template_resource_id,
              logline, pc, current, details, task, taskOut, calls, faults, run, prev,
              completed>>

\* The pull-request automation (iambic.plugins.v0_1_0.github.github), seen
\* through the mocks of its tests.
VARIABLES
    context,          \* the event being handled: event_name, body, login, signature
    handler,          \* position of the handler: "idle" | "dispatch" | "run_git_apply"
                      \*   | "push" | "maybe_merge" | "returned" | "raised"
    mergeable_state,  \* pull_request.mergeable_state
    head_sha,         \* pull_request.head.sha, the head of the pull request's branch
    pre_sha,          \* repo.head.commit.hexsha read before the apply step
    hexsha,           \* repo.head.commit.hexsha of the local checkout
    apply_result,     \* the apply step of this event: "none" | "ok" | "raised"
    merge_calls,      \* the sha of every pull_request.merge call of this event
    merged,           \* a merge call has succeeded
    gh_calls,         \* calls of the mocked collaborators during this event
    comments,         \* bodies handed to pull_request.create_issue_comment
    return_code,      \* HandleIssueCommentReturnCode of the event, "" before
    allowed_bot_approvers, \* config.github.allowed_bot_approvers (logins)
    events            \* events received so far

githubVars == <<context, handler, mergeable_state, head_sha, pre_sha, hexsha,
                apply_result, merge_calls, merged, gh_calls, comments,
                return_code, allowed_bot_approvers, events>>

vars == <<oktaVars, githubVars>>

\* ------------------------------------------------- lifecycle (ExpiryModel)
\* BaseModel.remove_expired_resources on the template: an entity whose
\* expires_at lies in the past is marked deleted, and the expired members
\* are dropped from the in-memory member list.  No provider call is made.
remove_expired_resources(t) ==
    [t EXCEPT !.deleted = t.deleted \/ t.expired,
              !.members = t.members \ t.expired_members,
              !.expired_members = {}]

\* ------------------------------------------------- OktaGroupTemplate
\* apply_resource_dict: the desired state handed to the change details.
apply_resource_dict(t) ==
    [name |-> t.name, description |-> t.description, members |-> t.members]

\* Account details identified by the name of the group, as log_params is
\* (line 165).
AccountChangeDetails_NameAsId(t) ==
    [account |-> t.idp_name, resource_id |-> t.name,
     new_value |-> apply_resource_dict(t), proposed_changes |-> <<>>]

\* A fresh TemplateChangeDetails (lines 96-100).
TemplateChangeDetails(t) ==
    [resource_id |-> t.group_id, resource_type |-> "okta:group"]

\* A fresh AccountChangeDetails (lines 156-161).
AccountChangeDetails(t) ==
    [account |-> t.idp_name, resource_id |-> t.group_id,
     new_value |-> apply_resource_dict(t), proposed_changes |-> <<>>]

\* Only the organization the template names is reconciled.
ScheduledOrgs_TemplateOnly(t) == {o \in Orgs : o = t.idp_name}

\* Lines 105-112: a coroutine is appended for every configured organization
\* (the per-organization filter is commented out at line 106).
ScheduledOrgs(t) == Orgs

\* A run that creates a missing group whatever the mode.
ExitBeforeCreate_Never(exec) == FALSE

\* Line 187: with the group missing, a run that does not execute returns at once.
ExitBeforeCreate(exec) == ~exec

\* A report that keeps every account's details.
HasChanges_Always(d) == TRUE

\* Lines 115-119: an account's details are reported when any(proposed_changes).
HasChanges(d) == Len(d.proposed_changes) > 0

\* ------------------------------------------------- provider adapter (utils)
\* The change list each field reconciler reports: the difference between the
\* snapshot it was handed (current_group) and the template's desired value.
update_group_name(group, new_name, rid) ==
    IF group.name = new_name THEN <<>>
    ELSE <<ProposedChange(UPDATE, "group_name", rid, {new_name})>>

update_group_description(group, new_description, rid) ==
    IF group.description = new_description THEN <<>>
    ELSE <<ProposedChange(UPDATE, "description", rid, {new_description})>>

update_group_members(group, new_members, rid) ==
    IF group.members = new_members THEN <<>>
    ELSE <<ProposedChange(UPDATE, "members", rid, new_members)>>

maybe_delete_group(delete, group, rid) ==
    IF ~delete THEN <<>>
    ELSE <<ProposedChange(DELETE, "group", rid, {})>>

\* What a reconciler would report for task f of organization o.
TaskChanges(f, group, t) ==
    CASE f = "name"        -> update_group_name(group, t.name, t.group_id)
      [] f = "description" -> update_group_description(group, t.description, t.group_id)
      [] f = "members"     -> update_group_members(group, t.members, t.group_id)
      [] f = "delete"      -> maybe_delete_group(t.deleted, group, t.group_id)

\* The provider call task f issues in execute mode.
TaskCall(f) ==
    CASE f = "name"        -> "update_group_name"
      [] f = "description" -> "update_group_description"
      [] f = "members"     -> "update_group_members"
      [] f = "delete"      -> "delete_group"

\* A provider whose member update adds the missing members and removes none.
ProviderApply_MembersOnlyAdded(f, g, t) ==
    CASE f = "name"        -> [g EXCEPT !.name = t.name]
      [] f = "description" -> [g EXCEPT !.description = t.description]
      [] f = "members"     -> [g EXCEPT !.members = @ \cup t.members]
      [] f = "delete"      -> Absent

\* The provider's state after the call of task f has been accepted.
ProviderApply(f, g, t) ==
    CASE f = "name"        -> [g EXCEPT !.name = t.name]
      [] f = "description" -> [g EXCEPT !.description = t.description]
      [] f = "members"     -> [g EXCEPT !.members = t.members]
      [] f = "delete"      -> Absent

\* create_group(group_name, idp_name, description, ...): a group without members.
create_group(t) == Group(t.name, t.description, {})

\* ------------------------------------------------- bookkeeping
NoCalls == [o \in Orgs |-> [c \in TracedCalls |-> 0]]
NoTasks == [o \in Orgs |-> [f \in TaskNames |-> "none"]]
NoOut   == [o \in Orgs |-> [f \in TaskNames |-> <<>>]]
CalledIn(cs, o, c) == [cs EXCEPT ![o][c] = @ + 1]
Called(o, c) == CalledIn(calls, o, c)

NoPrev == [valid |-> FALSE, execute |-> FALSE,
           changes |-> [o \in Orgs |-> <<>>]]

\* The reconcilers' lists chained last to first.
RECURSIVE Chain_Reversed(_)
Chain_Reversed(ss) == IF ss = <<>> THEN <<>> ELSE Chain_Reversed(Tail(ss)) \o Head(ss)

RECURSIVE Chain(_)
\* itertools.chain.from_iterable over a sequence of sequences
Chain(ss) == IF ss = <<>> THEN <<>> ELSE Head(ss) \o Chain(Tail(ss))

\* The kept details in the order the coroutines returned (as_completed).
RECURSIVE KeptFrom_AsCompleted(_, _)
KeptFrom_AsCompleted(i, ds) ==
    IF i > Len(completed) THEN <<>>
    ELSE (IF HasChanges(ds[completed[i]])
          THEN <<ds[completed[i]]>> ELSE <<>>) \o KeptFrom_AsCompleted(i + 1, ds)

\* Lines 115-119: the accounts whose details are kept, in the order of the
\* configured organizations (asyncio.gather keeps the order of its arguments).
RECURSIVE KeptFrom(_, _)
KeptFrom(i, ds) ==
    IF i > Len(okta_organizations) THEN <<>>
    ELSE (IF HasChanges(ds[okta_organizations[i]])
          THEN <<ds[okta_organizations[i]]>> ELSE <<>>) \o KeptFrom(i + 1, ds)

template_changes(ds) == KeptFrom(1, ds)

\* Lines 120-131: the aggregate log line; account_changes is the list gather
\* returned, one entry per configured organization.
AggregateLog(exec) ==
    IF Len(okta_organizations) > 0 /\ exec THEN "applied"
    ELSE IF Len(okta_organizations) > 0 THEN "detected"
    ELSE "none"

\* ------------------------------------------------- initial states
\* Desired members and, among them, the members whose own expires_at has passed.
TemplateMembers == {<<{}, {}>>, <<{"alice", "bob"}, {}>>, <<{"alice", "bob"}, {"bob"}>>}

\* Lifecycle of the template:
\* <<expires_at in the past, deleted, force_delete, iambic_managed>>.
TemplateLifecycles == {<<FALSE, FALSE, FALSE, "UNDEFINED">>,
                       <<TRUE,  FALSE, FALSE, "ENFORCED">>,
                       <<FALSE, TRUE,  TRUE,  "UNDEFINED">>,
                       <<FALSE, FALSE, FALSE, "IMPORT_ONLY">>}

Templates ==
    { [name |-> DesiredName, description |-> DesiredDescription,
       idp_name |-> "development", group_id |-> "development-eng",
       members |-> m[1], expired_members |-> m[2],
       expired |-> l[1], deleted |-> l[2], force_delete |-> l[3],
       iambic_managed |-> l[4]] :
         m \in TemplateMembers, l \in TemplateLifecycles }

\* What an organization may hold before the first apply call.
LiveGroups == {Absent,
               Group(DesiredName, DesiredDescription, {"alice"}),
               Group(StaleName, StaleDescription, {"alice", "bob"})}

\* No event has reached the pull-request automation.
NoContext == [event_name |-> "", body |-> "", login |-> "", signature |-> ""]

MockedCalls == {"run_git_apply", "run_git_plan", "lint_git_changes",
                "resolve_config_template_path", "push", "create_review"}

NoGithubCalls == [c \in MockedCalls |-> 0]

GithubIdle ==
    /\ context = NoContext
    /\ handler = "idle"
    /\ mergeable_state = "clean"
    /\ head_sha = 0
    /\ pre_sha = 0
    /\ hexsha = 0
    /\ apply_result = "none"
    /\ merge_calls = <<>>
    /\ merged = FALSE
    /\ gh_calls = NoGithubCalls
    /\ comments = <<>>
    /\ return_code = ""
    /\ events = 0

Init ==
    /\ GithubIdle
    /\ allowed_bot_approvers = {}
    /\ tpl \in Templates
    /\ fileExists = TRUE
    /\ live \in [Orgs -> LiveGroups]
    /\ execute = FALSE
    /\ applyPc = "idle"
    /\ report = <<>>
    /\ template_resource_id = ""
    /\ logline = ""
    /\ pc = [o \in Orgs |-> "idle"]
    /\ current = [o \in Orgs |-> Absent]
    /\ details = [o \in Orgs |-> AccountChangeDetails(tpl)]
    /\ task = NoTasks
    /\ taskOut = NoOut
    /\ calls = NoCalls
    /\ faults = MaxFaults
    /\ run = 0
    /\ prev = NoPrev
    /\ completed = <<>>

\* ------------------------------------------------- OktaGroupTemplate.apply
\* Lines 95-114: one _apply_to_account coroutine per configured organization,
\* all handed to asyncio.gather; each runs to its await of get_group.
\* A call follows the template's construction or a call that returned; a
\* call that raised ends the caller's session.
apply_start(exec) ==
    /\ applyPc \in {"idle", "returned"}
    /\ run < MaxRuns
    /\ run' = run + 1
    /\ execute' = exec
    /\ applyPc' = "gather"
    /\ report' = <<>>
    /\ template_resource_id' = TemplateChangeDetails(tpl).resource_id
    /\ logline' = ""
    /\ pc' = [o \in Orgs |-> IF o \in ScheduledOrgs(tpl) THEN "get_group" ELSE "idle"]
    /\ current' = [o \in Orgs |-> Absent]
    /\ details' = [o \in Orgs |-> AccountChangeDetails(tpl)]
    /\ task' = NoTasks
    /\ taskOut' = NoOut
    /\ calls' = NoCalls
    /\ prev' = IF applyPc = "returned"
               THEN [valid |-> TRUE, execute |-> execute,
                     changes |-> [o \in Orgs |-> details[o].proposed_changes]]
               ELSE NoPrev
    /\ completed' = <<>>
    /\ UNCHANGED <<githubVars, tpl, fileExists, live, faults>>

\* Whether reconciler f has a provider call to await: it found a difference
\* and the run executes.  Otherwise it returns without suspending.
Suspends(f, group, t, exec) == exec /\ TaskChanges(f, group, t) # <<>>

\* The reconcilers are started on the template as it stands, unpruned.
StartReconcilers_Unpruned(o, group, cs) ==
    /\ tpl' = tpl
    /\ calls' = cs
    /\ taskOut' = [taskOut EXCEPT ![o] =
                     [f \in TaskNames |-> TaskChanges(f, group, tpl)]]
    /\ task' = [task EXCEPT ![o] =
                  [f \in TaskNames |->
                     IF Suspends(f, group, tpl, execute) THEN "pending" ELSE "done"]]
    /\ pc' = [pc EXCEPT ![o] = "gather"]

\* Lines 206-244: expired resources are pruned, then the four reconcilers
\* are handed to the inner gather.  Each runs at once up to its first
\* provider call: it computes its change list from the snapshot `group`,
\* and only a reconciler that has a call to make is left pending.
StartReconcilers(o, group, cs) ==
    /\ tpl' = remove_expired_resources(tpl)
    /\ calls' = CalledIn(cs, o, "remove_expired_resources")
    /\ taskOut' = [taskOut EXCEPT ![o] =
                     [f \in TaskNames |-> TaskChanges(f, group, tpl')]]
    /\ task' = [task EXCEPT ![o] =
                  [f \in TaskNames |->
                     IF Suspends(f, group, tpl', execute) THEN "pending" ELSE "done"]]
    /\ pc' = [pc EXCEPT ![o] = "gather"]

\* Lines 169-190: get_group answers.
get_group_found(o) ==
    /\ pc[o] = "get_group"
    /\ live[o].exists
    /\ current' = [current EXCEPT ![o] = live[o]]
    /\ StartReconcilers(o, live[o], Called(o, "get_group"))
    /\ UNCHANGED <<githubVars, completed, fileExists, live, execute, applyPc, report, template_resource_id, logline, details,
                   faults, run, prev>>

get_group_missing(o) ==
    /\ pc[o] = "get_group"
    /\ ~live[o].exists
    /\ calls' = Called(o, "get_group")
    /\ details' = [details EXCEPT ![o].proposed_changes =
                     Append(@, ProposedChange(CREATE, "", tpl.group_id, {}))]
    /\ pc' = [pc EXCEPT ![o] = IF ExitBeforeCreate(execute) THEN "done"
                                ELSE "create_group"]
    /\ completed' = IF ExitBeforeCreate(execute) THEN Append(completed, o)
                    ELSE completed
    /\ UNCHANGED <<githubVars, tpl, fileExists, live, execute, applyPc, report, template_resource_id, logline,
                   current, task, taskOut, faults, run, prev>>

\* get_group is rejected by the provider: the exception leaves _apply_to_account.
get_group_raises(o) ==
    /\ pc[o] = "get_group"
    /\ faults > 0
    /\ faults' = faults - 1
    /\ calls' = Called(o, "get_group")
    /\ pc' = [pc EXCEPT ![o] = "raised"]
    /\ UNCHANGED <<githubVars, completed, tpl, fileExists, live, execute, applyPc, report, template_resource_id, logline,
                   current, details, task, taskOut, run, prev>>

\* The reconcilers are gathered on the missing group without waiting for
\* create_group.
create_group_done_NotAwaited(o) ==
    /\ pc[o] = "create_group"
    /\ StartReconcilers(o, current[o], calls)
    /\ UNCHANGED <<githubVars, completed, fileExists, live, execute, applyPc, report, template_resource_id, logline, current,
                   details, faults, run, prev>>

\* Lines 195-244: create_group answers with the new group.
create_group_done(o) ==
    /\ pc[o] = "create_group"
    /\ live' = [live EXCEPT ![o] = create_group(tpl)]
    /\ current' = [current EXCEPT ![o] = create_group(tpl)]
    /\ StartReconcilers(o, create_group(tpl), Called(o, "create_group"))
    /\ UNCHANGED <<githubVars, completed, fileExists, execute, applyPc, report, template_resource_id, logline, details,
                   faults, run, prev>>

create_group_raises(o) ==
    /\ pc[o] = "create_group"
    /\ faults > 0
    /\ faults' = faults - 1
    /\ calls' = Called(o, "create_group")
    /\ pc' = [pc EXCEPT ![o] = "raised"]
    /\ UNCHANGED <<githubVars, completed, tpl, fileExists, live, execute, applyPc, report, template_resource_id, logline,
                   current, details, task, taskOut, run, prev>>

\* ------------------------------------------------- the inner gather's coroutines
\* A pending reconciler's provider call is accepted.
reconcile_call(o, f) ==
    /\ task[o][f] = "pending"
    /\ live[o].exists
    /\ calls' = Called(o, TaskCall(f))
    /\ live' = [live EXCEPT ![o] = ProviderApply(f, @, tpl)]
    /\ task' = [task EXCEPT ![o][f] = "done"]
    /\ UNCHANGED <<githubVars, completed, tpl, fileExists, execute, applyPc, report, template_resource_id, logline, pc,
                   current, details, taskOut, faults, run, prev>>

\* A pending reconciler's provider call is rejected: by a provider fault, or
\* because the group it addresses has meanwhile been deleted.
reconcile_raises(o, f) ==
    /\ task[o][f] = "pending"
    /\ ~live[o].exists \/ faults > 0
    /\ faults' = IF live[o].exists THEN faults - 1 ELSE faults
    /\ calls' = Called(o, TaskCall(f))
    /\ task' = [task EXCEPT ![o][f] = "raised"]
    /\ UNCHANGED <<githubVars, completed, tpl, fileExists, live, execute, applyPc, report, template_resource_id, logline, pc,
                   current, details, taskOut, run, prev>>

\* ------------------------------------------------- _apply_to_account, the join
\* Lines 244-266: every reconciler has returned; their lists are chained in
\* the order of the task list, and an executed, deleted template deletes
\* its own record.
account_join(o) ==
    /\ pc[o] = "gather"
    /\ \A f \in TaskNames : task[o][f] = "done"
    /\ details' = [details EXCEPT ![o].proposed_changes =
                     @ \o Chain([i \in 1..Len(FieldTasks) |-> taskOut[o][FieldTasks[i]]])]
    /\ fileExists' = IF execute /\ tpl.deleted THEN FALSE ELSE fileExists
    /\ pc' = [pc EXCEPT ![o] = "done"]
    /\ completed' = Append(completed, o)
    /\ UNCHANGED <<githubVars, tpl, live, execute, applyPc, report, template_resource_id, logline, current, task,
                   taskOut, calls, faults, run, prev>>

\* Line 244: asyncio.gather passes the first exception of a reconciler on;
\* the other reconcilers are neither awaited nor cancelled.
account_raise(o) ==
    /\ pc[o] = "gather"
    /\ \E f \in TaskNames : task[o][f] = "raised"
    /\ pc' = [pc EXCEPT ![o] = "raised"]
    /\ UNCHANGED <<githubVars, completed, tpl, fileExists, live, execute, applyPc, report, template_resource_id, logline,
                   current, details, task, taskOut, calls, faults, run, prev>>

\* ------------------------------------------------- apply, the outer join
\* Lines 114-133: every account has returned.
apply_return ==
    /\ applyPc = "gather"
    /\ \A o \in ScheduledOrgs(tpl) : pc[o] = "done"
    /\ report' = template_changes(details)
    /\ logline' = AggregateLog(execute)
    /\ applyPc' = "returned"
    /\ UNCHANGED <<githubVars, completed, template_resource_id, tpl, fileExists, live, execute, pc, current, details, task,
                   taskOut, calls, faults, run, prev>>

\* Line 114: the first exception of an account leaves apply.
apply_raise ==
    /\ applyPc = "gather"
    /\ \E o \in Orgs : pc[o] = "raised"
    /\ applyPc' = "raised"
    /\ UNCHANGED <<githubVars, completed, tpl, fileExists, live, execute, report, template_resource_id, logline, pc, current,
                   details, task, taskOut, calls, faults, run, prev>>

Next ==
    \/ \E exec \in BOOLEAN : apply_start(exec)
    \/ \E o \in Orgs : get_group_found(o)
    \/ \E o \in Orgs : get_group_missing(o)
    \/ \E o \in Orgs : get_group_raises(o)
    \/ \E o \in Orgs : create_group_done(o)
    \/ \E o \in Orgs : create_group_raises(o)
    \/ \E o \in Orgs, f \in TaskNames : reconcile_call(o, f)
    \/ \E o \in Orgs, f \in TaskNames : reconcile_raises(o, f)
    \/ \E o \in Orgs : account_join(o)
    \/ \E o \in Orgs : account_raise(o)
    \/ apply_return
    \/ apply_raise

Spec == Init /\ [][Next]_vars

\* One step of organization o's coroutine: a provider call of it is answered
\* (accepted or rejected) or its inner gather ends.
AccountStep(o) ==
    \/ get_group_found(o)
    \/ get_group_missing(o)
    \/ create_group_done(o)
    \/ \E f \in TaskNames : reconcile_call(o, f)
    \/ \E f \in TaskNames : reconcile_raises(o, f)
    \/ account_join(o)
    \/ account_raise(o)

\* The event loop runs every coroutine that is ready, and every provider
\* call that was issued is eventually answered.
FairSpec ==
    /\ Spec
    /\ \A o \in Orgs : WF_vars(AccountStep(o))
    /\ WF_vars(apply_return \/ apply_raise)

\* ================================================= pull-request automation
\* handle_pull_request, handle_issue_comment and maybe_merge of
\* iambic.plugins.v0_1_0.github.github, as their tests drive them
\* (src/test/plugins/v0_1_0/github/test_github.py, src/test/cicd/test_github.py).
MaxEvents == 2

\* maybe_merge's max_attempts.
max_attempts == 2

MERGEABLE_STATE_CLEAN == "clean"
MERGEABLE_STATE_BLOCKED == "blocked"

Logins == {"fake-commenter", "mallory"}

IssueComment(body, login, signature) ==
    [event_name |-> "issue_comment", body |-> body, login |-> login,
     signature |-> signature]

Contexts ==
    {[event_name |-> "pull_request", body |-> "", login |-> "", signature |-> ""]}
    \cup {IssueComment(b, "fake-commenter", "") :
            b \in {"iambic git-apply", "iambic git-plan", "foo"}}
    \cup {IssueComment("iambic approve", l, sg) :
            l \in Logins, sg \in {"valid", "invalid"}}

GithubCalled(c) == [gh_calls EXCEPT ![c] = @ + 1]

\* The reconciliation engine at rest while events are handled.
OktaIdle ==
    /\ tpl = CHOOSE t \in Templates : TRUE
    /\ fileExists = TRUE
    /\ live = [o \in Orgs |-> Absent]
    /\ execute = FALSE
    /\ applyPc = "idle"
    /\ report = <<>>
    /\ template_resource_id = ""
    /\ logline = ""
    /\ pc = [o \in Orgs |-> "idle"]
    /\ current = [o \in Orgs |-> Absent]
    /\ details = [o \in Orgs |-> AccountChangeDetails(tpl)]
    /\ task = NoTasks
    /\ taskOut = NoOut
    /\ calls = NoCalls
    /\ faults = MaxFaults
    /\ run = 0
    /\ prev = NoPrev
    /\ completed = <<>>

InitGithub ==
    /\ OktaIdle
    /\ GithubIdle
    /\ allowed_bot_approvers \in {{}, {"fake-commenter"}}

\* run_handler: an event reaches the automation; every mock starts fresh.
receive_event(ctx, ms) ==
    /\ handler \in {"idle", "returned", "raised"}
    /\ events < MaxEvents
    /\ events' = events + 1
    /\ context' = ctx
    /\ mergeable_state' = ms
    /\ handler' = "dispatch"
    /\ apply_result' = "none"
    /\ merge_calls' = <<>>
    /\ gh_calls' = NoGithubCalls
    /\ comments' = <<>>
    /\ return_code' = ""
    /\ pre_sha' = head_sha
    /\ hexsha' = head_sha
    /\ UNCHANGED <<oktaVars, head_sha, merged, allowed_bot_approvers>>

\* handle_pull_request: the flow only posts the plan command as a comment.
handle_pull_request ==
    /\ handler = "dispatch"
    /\ context.event_name = "pull_request"
    /\ comments' = Append(comments, "iambic git-plan")
    /\ handler' = "returned"
    /\ UNCHANGED <<oktaVars, context, mergeable_state, head_sha, pre_sha, hexsha,
                   apply_result, merge_calls, merged, gh_calls, return_code,
                   allowed_bot_approvers, events>>

\* handle_issue_comment: the first line of the comment names no command.
no_matching_body ==
    /\ handler = "dispatch"
    /\ context.event_name = "issue_comment"
    /\ context.body \notin {"iambic git-apply", "iambic git-plan", "iambic approve"}
    /\ return_code' = "NO_MATCHING_BODY"
    /\ handler' = "returned"
    /\ UNCHANGED <<oktaVars, context, mergeable_state, head_sha, pre_sha, hexsha,
                   apply_result, merge_calls, merged, gh_calls, comments,
                   allowed_bot_approvers, events>>

\* git-apply on a pull request that is not clean: a comment, nothing else.
git_apply_not_clean ==
    /\ handler = "dispatch"
    /\ context.event_name = "issue_comment"
    /\ context.body = "iambic git-apply"
    /\ mergeable_state # MERGEABLE_STATE_CLEAN
    /\ comments' = Append(comments, "necessary approvals have not been granted")
    /\ return_code' = "MERGEABLE_STATE_NOT_CLEAN"
    /\ handler' = "returned"
    /\ UNCHANGED <<oktaVars, context, mergeable_state, head_sha, pre_sha, hexsha,
                   apply_result, merge_calls, merged, gh_calls,
                   allowed_bot_approvers, events>>

\* The apply step is started whatever the pull request's mergeable state.
git_apply_start_AnyState ==
    /\ handler = "dispatch"
    /\ context.event_name = "issue_comment"
    /\ context.body = "iambic git-apply"
    /\ handler' = "run_git_apply"
    /\ UNCHANGED <<oktaVars, context, mergeable_state, head_sha, pre_sha, hexsha,
                   apply_result, merge_calls, merged, gh_calls, comments,
                   return_code, allowed_bot_approvers, events>>

\* git-apply on a clean pull request: the branch is checked out and the apply
\* step is started.
git_apply_start ==
    /\ handler = "dispatch"
    /\ context.event_name = "issue_comment"
    /\ context.body = "iambic git-apply"
    /\ mergeable_state = MERGEABLE_STATE_CLEAN
    /\ handler' = "run_git_apply"
    /\ UNCHANGED <<oktaVars, context, mergeable_state, head_sha, pre_sha, hexsha,
                   apply_result, merge_calls, merged, gh_calls, comments,
                   return_code, allowed_bot_approvers, events>>

\* The apply step raised and the handler went on as if it had returned.
run_git_apply_raises_Swallowed ==
    /\ handler = "run_git_apply"
    /\ gh_calls' = GithubCalled("run_git_apply")
    /\ apply_result' = "raised"
    /\ handler' = "push"
    /\ UNCHANGED <<oktaVars, context, mergeable_state, head_sha, pre_sha, hexsha,
                   merge_calls, merged, comments, return_code,
                   allowed_bot_approvers, events>>

\* The apply step returns; it may have committed to the local checkout.
run_git_apply_returns(commits) ==
    /\ handler = "run_git_apply"
    /\ gh_calls' = GithubCalled("run_git_apply")
    /\ apply_result' = "ok"
    /\ hexsha' = IF commits THEN hexsha + 1 ELSE hexsha
    /\ handler' = "push"
    /\ UNCHANGED <<oktaVars, context, mergeable_state, head_sha, pre_sha,
                   merge_calls, merged, comments, return_code,
                   allowed_bot_approvers, events>>

\* The apply step raises: the traceback is posted on the pull request and the
\* exception is raised again.
run_git_apply_raises ==
    /\ handler = "run_git_apply"
    /\ gh_calls' = GithubCalled("run_git_apply")
    /\ apply_result' = "raised"
    /\ comments' = Append(comments, "Traceback")
    /\ handler' = "raised"
    /\ UNCHANGED <<oktaVars, context, mergeable_state, head_sha, pre_sha, hexsha,
                   merge_calls, merged, return_code, allowed_bot_approvers, events>>

\* The merge is asked for without pushing what the apply step committed.
push_new_commits_Skipped ==
    /\ handler = "push"
    /\ handler' = "maybe_merge"
    /\ UNCHANGED <<oktaVars, context, mergeable_state, head_sha, pre_sha, hexsha,
                   apply_result, merge_calls, merged, gh_calls, comments,
                   return_code, allowed_bot_approvers, events>>

\* After the apply step: commits it made are pushed to the pull request's
\* branch (refspec HEAD:<branch>) before the merge is asked for.
push_new_commits ==
    /\ handler = "push"
    /\ IF hexsha # pre_sha
       THEN /\ gh_calls' = GithubCalled("push")
            /\ head_sha' = hexsha
       ELSE UNCHANGED <<gh_calls, head_sha>>
    /\ handler' = "maybe_merge"
    /\ UNCHANGED <<oktaVars, context, mergeable_state, pre_sha, hexsha,
                   apply_result, merge_calls, merged, comments, return_code,
                   allowed_bot_approvers, events>>

\* maybe_merge: an attempt of pull_request.merge(sha = the local head) that
\* the provider accepts ends the loop.
merge_succeeds ==
    /\ handler = "maybe_merge"
    /\ Len(merge_calls) < max_attempts
    /\ merge_calls' = Append(merge_calls, hexsha)
    /\ merged' = TRUE
    /\ return_code' = "MERGED"
    /\ handler' = "returned"
    /\ UNCHANGED <<oktaVars, context, mergeable_state, head_sha, pre_sha, hexsha,
                   apply_result, gh_calls, comments, allowed_bot_approvers, events>>

\* maybe_merge: an attempt the provider rejects is followed by the next one.
merge_fails ==
    /\ handler = "maybe_merge"
    /\ Len(merge_calls) < max_attempts
    /\ merge_calls' = Append(merge_calls, hexsha)
    /\ UNCHANGED <<oktaVars, context, handler, mergeable_state, head_sha, pre_sha,
                   hexsha, apply_result, merged, gh_calls, comments, return_code,
                   allowed_bot_approvers, events>>

\* maybe_merge gives up after the first failed attempt.
merge_gives_up_AfterFirst ==
    /\ handler = "maybe_merge"
    /\ Len(merge_calls) >= 1
    /\ handler' = "raised"
    /\ UNCHANGED <<oktaVars, context, mergeable_state, head_sha, pre_sha, hexsha,
                   apply_result, merge_calls, merged, gh_calls, comments,
                   return_code, allowed_bot_approvers, events>>

\* maybe_merge: max_attempts attempts failed, RuntimeError "Fail to merge PR".
merge_gives_up ==
    /\ handler = "maybe_merge"
    /\ Len(merge_calls) = max_attempts
    /\ handler' = "raised"
    /\ UNCHANGED <<oktaVars, context, mergeable_state, head_sha, pre_sha, hexsha,
                   apply_result, merge_calls, merged, gh_calls, comments,
                   return_code, allowed_bot_approvers, events>>

PlanCalls ==
    [gh_calls EXCEPT !["resolve_config_template_path"] = @ + 1,
                     !["lint_git_changes"] = @ + 1,
                     !["run_git_plan"] = @ + 1]

\* A plan that returned is followed by the merge of the pull request.
git_plan_returns_Merges ==
    /\ handler = "dispatch"
    /\ context.event_name = "issue_comment"
    /\ context.body = "iambic git-plan"
    /\ gh_calls' = PlanCalls
    /\ handler' = "maybe_merge"
    /\ UNCHANGED <<oktaVars, context, mergeable_state, head_sha, pre_sha, hexsha,
                   apply_result, merge_calls, merged, comments, return_code,
                   allowed_bot_approvers, events>>

\* git-plan: the configuration is resolved, the changes are linted and the
\* plan step runs.
git_plan_returns ==
    /\ handler = "dispatch"
    /\ context.event_name = "issue_comment"
    /\ context.body = "iambic git-plan"
    /\ gh_calls' = PlanCalls
    /\ return_code' = "PLANNED"
    /\ handler' = "returned"
    /\ UNCHANGED <<oktaVars, context, mergeable_state, head_sha, pre_sha, hexsha,
                   apply_result, merge_calls, merged, comments,
                   allowed_bot_approvers, events>>

\* git-plan whose plan step raises: traceback comment, exception raised again.
git_plan_raises ==
    /\ handler = "dispatch"
    /\ context.event_name = "issue_comment"
    /\ context.body = "iambic git-plan"
    /\ gh_calls' = PlanCalls
    /\ comments' = Append(comments, "Traceback")
    /\ handler' = "raised"
    /\ UNCHANGED <<oktaVars, context, mergeable_state, head_sha, pre_sha, hexsha,
                   apply_result, merge_calls, merged, return_code,
                   allowed_bot_approvers, events>>

\* Any comment with a well-formed signature is accepted.
ApprovalAccepted_SignatureOnly(ctx, approvers) == ctx.signature = "valid"

\* The commenter is a configured bot approver and the comment's last line
\* carries a signature valid under that approver's public key.
ApprovalAccepted(ctx, approvers) ==
    ctx.login \in approvers /\ ctx.signature = "valid"

\* approve: a review is created for an accepted approval only.
git_approve ==
    /\ handler = "dispatch"
    /\ context.event_name = "issue_comment"
    /\ context.body = "iambic approve"
    /\ gh_calls' = IF ApprovalAccepted(context, allowed_bot_approvers)
                   THEN GithubCalled("create_review") ELSE gh_calls
    /\ return_code' = IF ApprovalAccepted(context, allowed_bot_approvers)
                      THEN "APPROVED" ELSE "NO_MATCHING_BODY"
    /\ handler' = "returned"
    /\ UNCHANGED <<oktaVars, context, mergeable_state, head_sha, pre_sha, hexsha,
                   apply_result, merge_calls, merged, comments,
                   allowed_bot_approvers, events>>

NextGithub ==
    \/ \E ctx \in Contexts :
         \E ms \in {MERGEABLE_STATE_CLEAN, MERGEABLE_STATE_BLOCKED} :
           receive_event(ctx, ms)
    \/ handle_pull_request
    \/ no_matching_body
    \/ git_apply_not_clean
    \/ git_apply_start
    \/ \E commits \in BOOLEAN : run_git_apply_returns(commits)
    \/ run_git_apply_raises
    \/ push_new_commits
    \/ merge_succeeds
    \/ merge_fails
    \/ merge_gives_up
    \/ git_plan_returns
    \/ git_plan_raises
    \/ git_approve

SpecGithub == InitGithub /\ [][NextGithub]_vars

\* ================================================= properties
NoMutatingCalls == \A o \in Orgs : \A c \in MutatingCalls : calls[o][c] = 0

CreateChange == ProposedChange(CREATE, "", tpl.group_id, {})

\* C1: while an apply call with execute = FALSE is in progress or has ended,
\* no create, update or delete call has been issued to any organization,
\* whatever the groups' live state and the interleaving.
C1_NoSideEffectsInDetectMode == ~execute => NoMutatingCalls

\* A detect run that returned over a missing group and over an existing
\* group that a deleted template differs from.
C1_Witness ==
    /\ applyPc = "returned" /\ ~execute
    /\ \E o \in Orgs : ~current[o].exists
    /\ \E o \in Orgs : current[o].exists /\ tpl.deleted
                         /\ Len(details[o].proposed_changes) >= 2

\* C2: in a run with execute = FALSE, once get_group has answered that the
\* group is missing, the account's coroutine has returned with exactly one
\* ProposedChange, a CREATE; create_group was not called, the pruning pass
\* was not run and no reconciler was started.
C2_CreateGating ==
    \A o \in Orgs :
        (~execute /\ pc[o] \notin {"idle", "get_group", "raised"} /\ ~current[o].exists)
        => /\ pc[o] = "done"
           /\ details[o].proposed_changes = <<CreateChange>>
           /\ \A c \in TracedCalls \ {"get_group"} : calls[o][c] = 0
           /\ calls[o]["get_group"] = 1
           /\ \A f \in TaskNames : task[o][f] = "none"

\* A detect run of an expired template with members returned over a missing group.
C2_Witness ==
    /\ applyPc = "returned" /\ ~execute
    /\ tpl.members # {} /\ tpl.expired
    /\ \E o \in Orgs : ~current[o].exists /\ pc[o] = "done"

Raised(o) == pc[o] = "raised"
InReport(o) == \E i \in 1..Len(report) : report[i] = details[o]

\* C3: fan-out isolation.  Once apply has ended and an adapter call of some
\* organization has raised, apply has returned a report (it did not fail as
\* a whole), every other organization's coroutine has completed and its
\* non-empty change details are in the report.
C3_FanOutIsolation ==
    (applyPc \in {"returned", "raised"} /\ \E a \in Orgs : Raised(a))
    => /\ applyPc = "returned"
       /\ \A b \in Orgs : ~Raised(b) =>
            /\ pc[b] = "done"
            /\ Len(details[b].proposed_changes) > 0 => InReport(b)

\* C4: the fan-out is a full join.  When apply has ended, normally or with
\* an error, no account coroutine it scheduled is still running.
C4_FullJoin ==
    applyPc \in {"returned", "raised"}
    => \A o \in Orgs : /\ pc[o] \in {"done", "raised"}
                       /\ \A f \in TaskNames : task[o][f] # "pending"

\* C5: the provider delete is called only for a template that is deleted
\* and has force_delete set, in a run that executes.
C5_DeleteNeedsForceDelete ==
    \A o \in Orgs :
        calls[o]["delete_group"] > 0 => tpl.deleted /\ tpl.force_delete /\ execute

\* C6: after an apply call on a template whose expires_at is in the past,
\* the template's deleted flag is set, in either mode and whether the group
\* exists or not.
C6_ExpiredIsDeleted == (applyPc = "returned" /\ tpl.expired) => tpl.deleted

\* C7: for a template whose management mode is IMPORT_ONLY no mutating
\* provider call is issued, and the report apply returns is empty.
C7_ImportOnlySuppresses ==
    tpl.iambic_managed = "IMPORT_ONLY"
    => /\ NoMutatingCalls
       /\ applyPc = "returned" => report = <<>>

\* C8: idempotence.  An executing apply call that follows an executing apply
\* call which returned reports no change for any organization.
C8_Idempotence ==
    (applyPc = "returned" /\ execute /\ prev.valid /\ prev.execute)
    => /\ report = <<>>
       /\ \A o \in Orgs : details[o].proposed_changes = <<>>

Range(seq) == {seq[i] : i \in 1..Len(seq)}

\* C9: mode equivalence.  An executing apply call that follows a detecting
\* call which returned (the live state is what the detecting call saw)
\* reports, per organization, the same set of changes as the detecting call.
C9_ModeEquivalence ==
    (applyPc = "returned" /\ execute /\ prev.valid /\ ~prev.execute)
    => \A o \in Orgs :
         Range(details[o].proposed_changes) = Range(prev.changes[o])

\* C10: the report apply returns holds an organization's change details if
\* and only if that organization's proposed_changes is not empty, once each.
C10_ReportKeepsNonEmpty ==
    applyPc = "returned"
    => /\ \A o \in Orgs : InReport(o) <=> Len(details[o].proposed_changes) > 0
       /\ Len(report) =
            Cardinality({o \in Orgs : Len(details[o].proposed_changes) > 0})

\* An apply call returned with changes for one organization and none for another.
C10_Witness ==
    /\ applyPc = "returned"
    /\ Len(report) = 1
    /\ \E o \in Orgs : details[o].proposed_changes = <<>>

\* C11: in an apply call every configured organization has exactly one
\* account coroutine, none is skipped and none runs twice, and each
\* coroutine fetches the live group exactly once: no fetch while it awaits
\* get_group, one fetch ever after.
C11_OneRunOneFetchPerOrg ==
    applyPc # "idle"
    => \A o \in Orgs :
         /\ pc[o] # "idle"
         /\ calls[o]["get_group"] = (IF pc[o] = "get_group" THEN 0 ELSE 1)
         /\ calls[o]["create_group"] <= 1
         /\ calls[o]["remove_expired_resources"] <= 1

\* An executing apply call returned after both organizations were fetched,
\* one holding the group and one not.
C11_Witness ==
    /\ applyPc = "returned" /\ execute
    /\ \A o \in Orgs : calls[o]["get_group"] = 1
    /\ \E o \in Orgs : calls[o]["create_group"] = 1
    /\ \E o \in Orgs : calls[o]["create_group"] = 0

StartedWithCreate(o) ==
    /\ details[o].proposed_changes # <<>>
    /\ details[o].proposed_changes[1].change_type = CREATE
    /\ \E f \in TaskNames : task[o][f] # "none"

\* C12: for a group that was missing in an executing run, whenever a
\* reconciler (name, description, members, delete) has been started,
\* create_group has completed, exactly once, and every reconciler computed
\* its changes from the group create_group returned; while create_group is
\* awaited no reconciler exists and no update or delete call has been made.
C12_CreateBeforeReconcilers ==
    \A o \in Orgs :
        /\ StartedWithCreate(o)
           => /\ calls[o]["create_group"] = 1
              /\ current[o] = Group(tpl.name, tpl.description, {})
              /\ \A f \in TaskNames : taskOut[o][f] = TaskChanges(f, current[o], tpl)
        /\ pc[o] = "create_group"
           => /\ \A f \in TaskNames : task[o][f] = "none"
              /\ \A c \in MutatingCalls : calls[o][c] = 0

\* A group was created and its member reconciler then called the provider.
C12_Witness ==
    \E o \in Orgs : /\ StartedWithCreate(o)
                    /\ calls[o]["update_group_members"] = 1
                    /\ task[o]["members"] = "done"

FieldReconcilers == TaskNames \ {"delete"}

\* C13: the provider delete of a group is dispatched only after the name,
\* description and members reconcilers of that organization have completed:
\* in no state has the delete been called while a field reconciler is
\* still pending.
C13_DeleteAfterFieldPass ==
    \A o \in Orgs :
        calls[o]["delete_group"] > 0
        => \A f \in FieldReconcilers : task[o][f] \in {"done", "raised"}

CreateFailed(o) ==
    calls[o]["create_group"] = 1 /\ ~current[o].exists /\ pc[o] # "create_group"

\* C14: when create_group fails in an executing run, the organization's
\* remaining steps (pruning, reconcilers) are not run and its coroutine
\* still returns change details that hold the CREATE entry.
C14_CreateFailureKeepsCreate ==
    \A o \in Orgs :
        CreateFailed(o)
        => /\ calls[o]["remove_expired_resources"] = 0
           /\ \A f \in TaskNames : task[o][f] = "none"
           /\ pc[o] = "done"
           /\ CreateChange \in Range(details[o].proposed_changes)

ReconcilerFailed(o) == \E f \in TaskNames : task[o][f] = "raised"

\* C15: when a reconciler of an organization fails, the coroutine, once it
\* has ended, has returned change details that hold the CREATE entry (if
\* the group was created) and the changes of every reconciler that
\* succeeded; the other reconcilers are not cancelled.
C15_ReconcilerFailureKeepsChanges ==
    \A o \in Orgs :
        (ReconcilerFailed(o) /\ pc[o] # "gather")
        => /\ pc[o] = "done"
           /\ calls[o]["create_group"] = 1
                => CreateChange \in Range(details[o].proposed_changes)
           /\ \A f \in TaskNames :
                task[o][f] = "done"
                => Range(taskOut[o][f]) \subseteq Range(details[o].proposed_changes)

\* C16: the template's record is destroyed only by a run that executes, on
\* a template that is deleted and has force_delete set, by an organization
\* whose provider delete has succeeded.
C16_RecordDeletedOnlyWhenForced ==
    [][ (fileExists /\ ~fileExists')
        => /\ execute /\ tpl.deleted /\ tpl.force_delete
           /\ \E o \in Orgs : /\ pc[o] = "gather" /\ pc'[o] = "done"
                              /\ calls[o]["delete_group"] = 1
                              /\ task[o]["delete"] = "done" ]_vars

Running(o) == pc[o] \in {"get_group", "create_group", "gather"}

\* C17: every account coroutine terminates in its terminal state: a run
\* that has started eventually is done, having returned its change
\* details, and no adapter operation is invoked more than once in a run.
C17_RunReachesDone ==
    /\ \A o \in Orgs : Running(o) ~> (pc[o] = "done")
    /\ [](\A o \in Orgs : \A c \in TracedCalls : calls[o][c] <= 1)

WasPresent(o) == CreateChange \notin Range(details[o].proposed_changes)

\* C18: for a template that is not deleted and a group that is present, an
\* executing apply call reports the same field changes as the detecting
\* call before it, and reports no change when the call before it executed.
C18_PresentGroupSameChanges ==
    (applyPc = "returned" /\ execute /\ prev.valid /\ ~tpl.deleted /\ ~tpl.expired)
    => \A o \in Orgs :
         WasPresent(o)
         => details[o].proposed_changes =
              (IF prev.execute THEN <<>> ELSE prev.changes[o])

\* Desired members alice and bob against a live group holding alice: the
\* detecting call and the executing call after it both report the one
\* UPDATE of the members.
C18_Witness ==
    /\ applyPc = "returned" /\ execute /\ prev.valid /\ ~prev.execute
    /\ \E o \in Orgs :
         /\ current[o].members = {"alice"}
         /\ details[o].proposed_changes =
              <<ProposedChange(UPDATE, "members", tpl.group_id, {"alice", "bob"})>>
         /\ prev.changes[o] = details[o].proposed_changes
         /\ live[o].members = {"alice", "bob"}

\* C19: apply never changes the identity fields of the template (group_id,
\* name, description), and the report, every organization's change details
\* and every proposed change carry the template's group_id as resource id.
C19_IdentityKept ==
    /\ tpl.group_id = "development-eng"
    /\ tpl.name = DesiredName
    /\ tpl.description = DesiredDescription
    /\ applyPc # "idle" =>
         /\ template_resource_id = tpl.group_id
         /\ \A o \in Orgs :
              /\ details[o].resource_id = template_resource_id
              /\ \A c \in Range(details[o].proposed_changes) :
                   c.resource_id = template_resource_id
         /\ \A i \in 1..Len(report) : report[i].resource_id = template_resource_id

\* An executing call has renamed a stale group and returned a report.
C19_Witness ==
    /\ applyPc = "returned" /\ execute /\ Len(report) > 0
    /\ report[1].resource_id = "development-eng"
    /\ \E o \in Orgs :
         /\ current[o].exists /\ current[o].name = StaleName
         /\ live[o].exists /\ live[o].name = DesiredName
         /\ live[o].description = DesiredDescription
         /\ \E c \in Range(details[o].proposed_changes) : c.attribute = "group_name"

GitApplyEvent ==
    context.event_name = "issue_comment" /\ context.body = "iambic git-apply"

\* C20: while and after a git-apply comment is handled, merge has been
\* called only if the apply step returned; when the apply step raised, the
\* handler has raised, a comment holding the traceback is on the pull request
\* and merge was not called; when the apply step returned and the handler has
\* ended, merge was called.
C20_MergeIffApplySucceeded ==
    GitApplyEvent =>
      /\ merge_calls # <<>> => apply_result = "ok"
      /\ apply_result = "raised" =>
           /\ handler = "raised"
           /\ "Traceback" \in Range(comments)
           /\ merge_calls = <<>>
      /\ (apply_result = "ok" /\ handler \in {"returned", "raised"}) =>
           merge_calls # <<>>

\* The apply step of a clean pull request has raised.
C20_Witness ==
    /\ GitApplyEvent
    /\ mergeable_state = MERGEABLE_STATE_CLEAN
    /\ gh_calls["run_git_apply"] = 1
    /\ apply_result = "raised"
    /\ handler = "raised"

HandlerEnded == handler \in {"returned", "raised"}

\* C21: a git-apply comment on a pull request whose mergeable state is not
\* clean runs no apply step and calls no merge, push or other collaborator;
\* the handler returns having posted the one comment that approvals are
\* probably missing.
C21_NotCleanOnlyComments ==
    (GitApplyEvent /\ mergeable_state # MERGEABLE_STATE_CLEAN) =>
      /\ gh_calls = NoGithubCalls
      /\ merge_calls = <<>>
      /\ apply_result = "none"
      /\ handler # "raised"
      /\ handler = "returned" =>
           comments = <<"necessary approvals have not been granted">>

C21_Witness ==
    /\ GitApplyEvent
    /\ mergeable_state = MERGEABLE_STATE_BLOCKED
    /\ handler = "returned"
    /\ return_code = "MERGEABLE_STATE_NOT_CLEAN"
    /\ Len(comments) = 1

\* C22: maybe_merge never calls merge more than max_attempts times; no merge
\* call follows the one that succeeded (one call when the first attempt
\* succeeds); and it raises only after exactly max_attempts failed calls.
C22_MergeAttemptsBounded ==
    [][ /\ Len(merge_calls') <= max_attempts
        /\ (return_code = "MERGED" /\ events' = events) => merge_calls' = merge_calls
        /\ (merge_calls = <<>> /\ return_code' = "MERGED") => Len(merge_calls') = 1
        /\ (handler = "maybe_merge" /\ handler' = "raised") =>
             /\ Len(merge_calls') = max_attempts
             /\ ~merged' \/ merged
             /\ return_code' # "MERGED"
      ]_vars

\* Every attempt failed and maybe_merge has raised.
C22_Witness ==
    /\ handler = "raised"
    /\ apply_result = "ok"
    /\ Len(merge_calls) = max_attempts
    /\ ~merged

C25_PushBeforeMerge ==
    (GitApplyEvent /\ merge_calls # <<>>) =>
      /\ \A i \in 1..Len(merge_calls) : merge_calls[i] = hexsha
      /\ hexsha # pre_sha =>
           /\ gh_calls["push"] = 1
           /\ head_sha = hexsha
           /\ \A i \in 1..Len(merge_calls) : merge_calls[i] # pre_sha
      /\ hexsha = pre_sha => gh_calls["push"] = 0

\* The apply step committed, and the pull request was merged at the new head.
C25_Witness ==
    /\ GitApplyEvent
    /\ hexsha # pre_sha
    /\ merged /\ return_code = "MERGED"
    /\ merge_calls = <<hexsha>>
    /\ gh_calls["push"] = 1

\* C26: the aggregate log line of an apply call that returned matches the
\* outcome: "applied" only for an executing call that reported changes of an
\* organization, "detected" only for a detecting call that reported some,
\* and "none" whenever no organization had a proposed change.
C26_LogKindMatchesOutcome ==
    applyPc = "returned" =>
      /\ logline \in {"applied", "detected", "none"}
      /\ logline = "applied" => (execute /\ report # <<>>)
      /\ logline = "detected" => (~execute /\ report # <<>>)
      /\ report = <<>> => logline = "none"

ReconcilersStarted(o) == \E f \in TaskNames : task[o][f] # "none"

Pruned(o) == calls[o]["remove_expired_resources"]

\* C27: in both modes the pruning of expired members happens once per
\* organization, right after the answer of get_group (of create_group for
\* an absent group), issues no update or delete call and leaves a group that
\* was found as it is; no reconciler of the organization has started before
\* it, and once they have started the template holds no expired member and
\* the member changes are the difference to the pruned members.
C27_PruneBeforeReconcilers ==
    [][ \A o \in Orgs :
          /\ Pruned(o)' > Pruned(o) =>
               /\ ~ReconcilersStarted(o)
               /\ calls'[o]["get_group"] = 1
               /\ current'[o].exists
               /\ (~live[o].exists => calls'[o]["create_group"] = 1)
               /\ (live[o].exists => live' = live)
               /\ \A c \in MutatingCalls \ {"create_group"} :
                    calls'[o][c] = calls[o][c]
          /\ ReconcilersStarted(o)' =>
               /\ Pruned(o)' = 1
               /\ tpl'.expired_members = {}
               /\ taskOut'[o]["members"] =
                    update_group_members(current'[o], tpl'.members, tpl'.group_id)
      ]_vars

\* A detecting call: bob has expired, the group holds alice and bob, and the
\* member change asks for alice alone.
C27_Witness ==
    /\ ~execute
    /\ \E o \in Orgs :
         /\ ReconcilersStarted(o)
         /\ Pruned(o) = 1
         /\ current[o].members = {"alice", "bob"}
         /\ tpl.members = {"alice"}
         /\ taskOut[o]["members"] =
              <<ProposedChange(UPDATE, "members", tpl.group_id, {"alice"})>>

\* The step in which organization o's run ends and deletes the template's
\* record (lines 250-258).
DeletingJoin(o) ==
    pc[o] = "gather" /\ pc'[o] = "done" /\ execute /\ tpl.deleted

\* C28: the template's record disappears only in a step after which no
\* organization's run of the apply call is still in progress, and the
\* deletion is invoked at most once per apply call: no run deletes the
\* record when a sibling's run of the same call has already done so.
C28_RecordDeletedAfterAllOrgs ==
    [][ /\ (fileExists /\ ~fileExists') => \A o \in Orgs : ~Running(o)'
        /\ \A o \in Orgs :
             DeletingJoin(o) => \A o2 \in Orgs \ {o} : pc[o2] # "done"
      ]_vars

\* C29: a template that is deleted or expired never has create_group called
\* for it, whatever the mode and the provider's state.
C29_NoCreateForDeletedTemplate ==
    (tpl.deleted \/ tpl.expired)
    => \A o \in Orgs : calls[o]["create_group"] = 0

\* The place of a proposed change in an organization's list.
Rank(c) ==
    CASE c.change_type = CREATE    -> 0
      [] c.attribute = "group_name"  -> 1
      [] c.attribute = "description" -> 2
      [] c.attribute = "members"     -> 3
      [] OTHER                       -> 4

\* C30: in every interleaving an organization's proposed changes are in the
\* order CREATE, name, description, members, delete, each at most once;
\* while its reconcilers run the list holds at most the CREATE, and once
\* they have all returned it is the CREATE (if any) followed by the four
\* reconcilers' lists in that order.
C30_ChangeListOrder ==
    \A o \in Orgs :
      LET changes == details[o].proposed_changes
          fields == taskOut[o]["name"] \o taskOut[o]["description"]
                      \o taskOut[o]["members"] \o taskOut[o]["delete"]
      IN /\ \A i, j \in 1..Len(changes) : i < j => Rank(changes[i]) < Rank(changes[j])
         /\ pc[o] \in {"create_group", "gather", "raised"} =>
              changes \in {<<>>, <<CreateChange>>}
         /\ (pc[o] = "done" /\ ReconcilersStarted(o)) =>
              changes \in {fields, <<CreateChange>> \o fields}

\* The member update has been answered while the name and description
\* updates are still pending: nothing is in the list yet.
C30_Witness ==
    \E o \in Orgs :
      /\ pc[o] = "gather" /\ execute
      /\ task[o]["members"] = "done" /\ calls[o]["update_group_members"] = 1
      /\ task[o]["name"] = "pending" /\ task[o]["description"] = "pending"
      /\ details[o].proposed_changes = <<>>

\* C31: in the report apply returned, the change details of every
\* configured organization carry that organization's identifier as account,
\* so the entries of two organizations carry distinct accounts.
C31_DetailsNameTheirOrg ==
    applyPc = "returned" =>
      /\ \A o \in Orgs : InReport(o) => details[o].account = o
      /\ \A i, j \in 1..Len(report) : i # j => report[i].account # report[j].account

\* The change details of the configured organizations, in configured order.
ConfiguredDetails ==
    [i \in 1..Len(okta_organizations) |-> details[okta_organizations[i]]]

NonEmpty(d) == d.proposed_changes # <<>>

\* C32: the report apply returned holds the change details of the
\* organizations with changes in the order of the configured list, in
\* whatever order their coroutines returned.
C32_ReportInConfiguredOrder ==
    applyPc = "returned" => report = SelectSeq(ConfiguredDetails, NonEmpty)

\* staging returned before development, both with changes that differ, and
\* the report lists development first.
C32_Witness ==
    /\ applyPc = "returned"
    /\ completed = <<"staging", "development">>
    /\ Len(report) = 2
    /\ report[1] # report[2]
    /\ report[1] = details["development"]
    /\ report[2] = details["staging"]

====
